---- MODULE Spec2Model ----
(***************************************************************************)
(* AES-128 (aes128e.c) and its Output Feedback driver and command-line     *)
(* program (obf.c), modelled as a state machine.                           *)
(*                                                                         *)
(* A byte is a number in 0..255.  A C array is a sequence; the C element   *)
(* a[k] is At(a, k), the (k+1)-th element of the sequence.                 *)
(***************************************************************************)
EXTENDS Integers, Sequences, FiniteSets, TLC

Nb == 4
Nk == 4
Nr == 10

At(a, k) == a[k + 1]

\* uint8_t arithmetic wraps
U8(x) == x % 256

\* A sequence given by a rule, evaluated once into a tuple
Arr(f) == f \o << >>

\* Bit k of a non-negative int
Bit(x, k) == (x \div (2 ^ k)) % 2

\* The C operator ^ on two 4-bit values a and b, tabulated at index 16 * a + b
NibbleXor ==
    Arr([n \in 1..256 |->
        LET a == (n - 1) \div 16
            b == (n - 1) % 16
        IN    ((Bit(a, 0) + Bit(b, 0)) % 2)
            + ((Bit(a, 1) + Bit(b, 1)) % 2) * 2
            + ((Bit(a, 2) + Bit(b, 2)) % 2) * 4
            + ((Bit(a, 3) + Bit(b, 3)) % 2) * 8])

\* The C operator ^ on two bytes: the high and the low 4 bits separately
Xor(a, b) ==
    16 * NibbleXor[16 * (a \div 16) + (b \div 16) + 1] + NibbleXor[16 * (a % 16) + (b % 16) + 1]

\* n zero bytes
Zeros(n) == Arr([k \in 1..n |-> 0])

sbox == <<
     99, 124, 119, 123, 242, 107, 111, 197,  48,   1, 103,  43, 254, 215, 171, 118,
    202, 130, 201, 125, 250,  89,  71, 240, 173, 212, 162, 175, 156, 164, 114, 192,
    183, 253, 147,  38,  54,  63, 247, 204,  52, 165, 229, 241, 113, 216,  49,  21,
      4, 199,  35, 195,  24, 150,   5, 154,   7,  18, 128, 226, 235,  39, 178, 117,
      9, 131,  44,  26,  27, 110,  90, 160,  82,  59, 214, 179,  41, 227,  47, 132,
     83, 209,   0, 237,  32, 252, 177,  91, 106, 203, 190,  57,  74,  76,  88, 207,
    208, 239, 170, 251,  67,  77,  51, 133,  69, 249,   2, 127,  80,  60, 159, 168,
     81, 163,  64, 143, 146, 157,  56, 245, 188, 182, 218,  33,  16, 255, 243, 210,
    205,  12,  19, 236,  95, 151,  68,  23, 196, 167, 126,  61, 100,  93,  25, 115,
     96, 129,  79, 220,  34,  42, 144, 136,  70, 238, 184,  20, 222,  94,  11, 219,
    224,  50,  58,  10,  73,   6,  36,  92, 194, 211, 172,  98, 145, 149, 228, 121,
    231, 200,  55, 109, 141, 213,  78, 169, 108,  86, 244, 234, 101, 122, 174,   8,
    186, 120,  37,  46,  28, 166, 180, 198, 232, 221, 116,  31,  75, 189, 139, 138,
    112,  62, 181, 102,  72,   3, 246,  14,  97,  53,  87, 185, 134, 193,  29, 158,
    225, 248, 152,  17, 105, 217, 142, 148, 155,  30, 135, 233, 206,  85,  40, 223,
    140, 161, 137,  13, 191, 230,  66, 104,  65, 153,  45,  15, 176,  84, 187,  22
>>

Rcon == << 0, 1, 2, 4, 8, 16, 32, 64, 128, 27, 54 >>

\* The first loop of KeyExpansion: the first round key is the key itself
KeyExpansionInit(RoundKey, Key) ==
    Arr([n \in 1..Len(RoundKey) |-> IF n <= 4 * Nk THEN Key[n] ELSE RoundKey[n]])

\* One iteration of the second loop of KeyExpansion: word i of the schedule
KeyExpansionWord(RoundKey, i) ==
    LET k == (i - 1) * 4
        t0 == At(RoundKey, k + 0)
        t1 == At(RoundKey, k + 1)
        t2 == At(RoundKey, k + 2)
        t3 == At(RoundKey, k + 3)
        tempa == IF i % Nk = 0
                 THEN << Xor(At(sbox, t1), At(Rcon, i \div Nk)),
                         At(sbox, t2), At(sbox, t3), At(sbox, t0) >>
                 ELSE << t0, t1, t2, t3 >>
        j == i * 4
        kk == (i - Nk) * 4
    IN  [RoundKey EXCEPT ![j + 1] = Xor(At(RoundKey, kk + 0), tempa[1]),
                         ![j + 2] = Xor(At(RoundKey, kk + 1), tempa[2]),
                         ![j + 3] = Xor(At(RoundKey, kk + 2), tempa[3]),
                         ![j + 4] = Xor(At(RoundKey, kk + 3), tempa[4])]

AddRoundKey(round, state, RoundKey) ==
    Arr([i \in 1..16 |-> Xor(state[i], At(RoundKey, (round * Nb * 4) + (i - 1)))])

SubBytes(state) == Arr([i \in 1..16 |-> At(sbox, state[i])])

\* ShiftRows: the source position each state byte is taken from
ShiftRows(state) ==
    << At(state, 0),  At(state, 5),  At(state, 10), At(state, 15),
       At(state, 4),  At(state, 9),  At(state, 14), At(state, 3),
       At(state, 8),  At(state, 13), At(state, 2),  At(state, 7),
       At(state, 12), At(state, 1),  At(state, 6),  At(state, 11) >>

\* xtime with the reduction by another polynomial
xtimeOtherPolynomial(x) == Xor(U8(x * 2), IF x >= 128 THEN 29 ELSE 0)

\* xtime: (x << 1) ^ (0x1b or 0), stored back into a byte (bit 8 of x << 1 is
\* not touched by the ^ and is dropped by the store)
xtime(x) == Xor(U8(x * 2), IF x >= 128 THEN 27 ELSE 0)

\* One column of MixColumns, the four bytes a0..a3 of column i
MixColumn(a0, a1, a2, a3) ==
    LET Tmp == Xor(Xor(a0, a1), Xor(a2, a3))
    IN  << Xor(a0, Xor(xtime(Xor(a0, a1)), Tmp)),
           Xor(a1, Xor(xtime(Xor(a1, a2)), Tmp)),
           Xor(a2, Xor(xtime(Xor(a2, a3)), Tmp)),
           Xor(a3, Xor(xtime(Xor(a3, a0)), Tmp)) >>

MixColumns(state) ==
    MixColumn(At(state, 0),  At(state, 1),  At(state, 2),  At(state, 3)) \o
    MixColumn(At(state, 4),  At(state, 5),  At(state, 6),  At(state, 7)) \o
    MixColumn(At(state, 8),  At(state, 9),  At(state, 10), At(state, 11)) \o
    MixColumn(At(state, 12), At(state, 13), At(state, 14), At(state, 15))

(***************************************************************************)
(* State.                                                                  *)
(*                                                                         *)
(* An invocation of OFBaes128e (or, directly, of aes128e) is a call p.     *)
(* store holds every array: the caller's buffers of call p, and the        *)
(* automatic arrays of the activation records (block_out and feedback of   *)
(* OFBaes128e, RoundKey and state of aes128e).  reg holds the scalar       *)
(* locals, pc the position of each call, ret where aes128e returns to.     *)
(* hist is history: what each call did, for stating the properties.        *)
(* drv is the caller's position; main and fs are the command-line program  *)
(* and the output file.                                                    *)
(***************************************************************************)
VARIABLES pc, ret, store, reg, hist, drv, main, fs

vars == << pc, ret, store, reg, hist, drv, main, fs >>

Calls == 1..2

\* The activation record a call's automatic arrays live in: its own
Slot(p) == p

\* The chaining register as one static array shared by all calls
FeedbackStatic(p) == << "feedback", 1 >>

\* The chaining register of call p: an automatic array of its activation record
Feedback(p) == << "feedback", Slot(p) >>

\* Addresses of the other arrays
Key(p) == << "key", p >>
Iv(p) == << "iv", p >>
Plaintext(p) == << "plaintext", p >>
Ciphertext(p) == << "ciphertext", p >>
BlockOut(p) == << "block_out", Slot(p) >>
RoundKeyOf(p) == << "RoundKey", Slot(p) >>
StateOf(p) == << "state", Slot(p) >>

Addresses ==
    ({"key", "iv", "plaintext", "ciphertext"} \X Calls)
    \cup ({"block_out", "feedback", "RoundKey", "state"} \X Calls)

\* memcpy(dst, src, n) on the store
Memcpy(s, dst, src, n) ==
    [s EXCEPT ![dst] = Arr([k \in 1..Len(s[dst]) |->
                            IF k <= n THEN s[src][k] ELSE s[dst][k]])]

\* The arguments output and input of a call of aes128e: OFBaes128e passes
\* block_out and feedback, a direct caller its own two blocks
AesOutput(p) == IF ret[p] = "top" THEN Ciphertext(p) ELSE BlockOut(p)
AesInput(p) == IF ret[p] = "top" THEN Plaintext(p) ELSE Feedback(p)

\* The round loop running once too often
RoundLoopCondInclusive(round) == round <= Nr

\* The condition of the round loop of aes128e
RoundLoopCond(round) == round < Nr

Logged(p, step, round) == [hist EXCEPT ![p].log = Append(@, << step, round >>)]

(***************************************************************************)
(* aes128e, one action per statement (KeyExpansion: per loop iteration)    *)
(***************************************************************************)
\* memcpy(state, input, 16), and the first loop of KeyExpansion
AesEntry(p) ==
    /\ pc[p] = "aes_entry"
    /\ store' = [Memcpy(store, StateOf(p), AesInput(p), 16)
                    EXCEPT ![RoundKeyOf(p)] = KeyExpansionInit(@, store[Key(p)])]
    /\ reg' = [reg EXCEPT ![p].i_ke = Nk]
    /\ hist' = [hist EXCEPT ![p].log = << >>,
                            ![p].calls = Append(@, [input |-> SubSeq(store[AesInput(p)], 1, 16),
                                                   key |-> store[Key(p)],
                                                   output |-> << >>])]
    /\ pc' = [pc EXCEPT ![p] = "aes_keyexp"]
    /\ UNCHANGED << ret, drv, main, fs >>

\* One iteration of "for (i = Nk; i < Nb * (Nr + 1); ++i)" of KeyExpansion
AesKeyExpansion(p) ==
    /\ pc[p] = "aes_keyexp"
    /\ reg[p].i_ke < Nb * (Nr + 1)
    /\ store' = [store EXCEPT ![RoundKeyOf(p)] = KeyExpansionWord(@, reg[p].i_ke)]
    /\ reg' = [reg EXCEPT ![p].i_ke = @ + 1]
    /\ pc' = [pc EXCEPT ![p] = IF reg[p].i_ke + 1 < Nb * (Nr + 1)
                               THEN "aes_keyexp" ELSE "aes_whiten"]
    /\ UNCHANGED << ret, hist, drv, main, fs >>

\* AddRoundKey(0, state, RoundKey), then round = 1 and the loop test
AesWhiten(p) ==
    /\ pc[p] = "aes_whiten"
    /\ store' = [store EXCEPT ![StateOf(p)] = AddRoundKey(0, @, store[RoundKeyOf(p)])]
    /\ reg' = [reg EXCEPT ![p].round = 1]
    /\ hist' = Logged(p, "AddRoundKey", 0)
    /\ pc' = [pc EXCEPT ![p] = IF RoundLoopCond(1) THEN "aes_sub" ELSE "aes_fsub"]
    /\ UNCHANGED << ret, drv, main, fs >>

AesSubBytes(p) ==
    /\ pc[p] = "aes_sub"
    /\ store' = [store EXCEPT ![StateOf(p)] = SubBytes(@)]
    /\ hist' = Logged(p, "SubBytes", reg[p].round)
    /\ pc' = [pc EXCEPT ![p] = "aes_shift"]
    /\ UNCHANGED << ret, reg, drv, main, fs >>

AesShiftRows(p) ==
    /\ pc[p] = "aes_shift"
    /\ store' = [store EXCEPT ![StateOf(p)] = ShiftRows(@)]
    /\ hist' = Logged(p, "ShiftRows", reg[p].round)
    /\ pc' = [pc EXCEPT ![p] = "aes_mix"]
    /\ UNCHANGED << ret, reg, drv, main, fs >>

AesMixColumns(p) ==
    /\ pc[p] = "aes_mix"
    /\ store' = [store EXCEPT ![StateOf(p)] = MixColumns(@)]
    /\ hist' = Logged(p, "MixColumns", reg[p].round)
    /\ pc' = [pc EXCEPT ![p] = "aes_add"]
    /\ UNCHANGED << ret, reg, drv, main, fs >>

\* AddRoundKey(round, state, RoundKey), then ++round and the loop test
AesAddRoundKey(p) ==
    /\ pc[p] = "aes_add"
    /\ store' = [store EXCEPT ![StateOf(p)] = AddRoundKey(reg[p].round, @, store[RoundKeyOf(p)])]
    /\ hist' = Logged(p, "AddRoundKey", reg[p].round)
    /\ reg' = [reg EXCEPT ![p].round = @ + 1]
    /\ pc' = [pc EXCEPT ![p] = IF RoundLoopCond(reg[p].round + 1) THEN "aes_sub" ELSE "aes_fsub"]
    /\ UNCHANGED << ret, drv, main, fs >>

\* The final round: SubBytes, ShiftRows, AddRoundKey(Nr, ...)
AesFinalSubBytes(p) ==
    /\ pc[p] = "aes_fsub"
    /\ store' = [store EXCEPT ![StateOf(p)] = SubBytes(@)]
    /\ hist' = Logged(p, "SubBytes", Nr)
    /\ pc' = [pc EXCEPT ![p] = "aes_fshift"]
    /\ UNCHANGED << ret, reg, drv, main, fs >>

AesFinalShiftRows(p) ==
    /\ pc[p] = "aes_fshift"
    /\ store' = [store EXCEPT ![StateOf(p)] = ShiftRows(@)]
    /\ hist' = Logged(p, "ShiftRows", Nr)
    /\ pc' = [pc EXCEPT ![p] = "aes_fadd"]
    /\ UNCHANGED << ret, reg, drv, main, fs >>

AesFinalAddRoundKey(p) ==
    /\ pc[p] = "aes_fadd"
    /\ store' = [store EXCEPT ![StateOf(p)] = AddRoundKey(Nr, @, store[RoundKeyOf(p)])]
    /\ hist' = Logged(p, "AddRoundKey", Nr)
    /\ pc' = [pc EXCEPT ![p] = "aes_out"]
    /\ UNCHANGED << ret, reg, drv, main, fs >>

\* memcpy(output, state, 16) and the return to the caller
AesReturn(p) ==
    /\ pc[p] = "aes_out"
    /\ store' = Memcpy(store, AesOutput(p), StateOf(p), 16)
    /\ hist' = [hist EXCEPT ![p].calls[Len(hist[p].calls)].output = store[StateOf(p)]]
    /\ pc' = [pc EXCEPT ![p] = CASE ret[p] = "full" -> "ofb_xor"
                                 [] ret[p] = "partial" -> "ofb_xor_tail"
                                 [] OTHER -> "done"]
    /\ UNCHANGED << ret, reg, drv, main, fs >>

Aes(p) ==
    \/ AesEntry(p) \/ AesKeyExpansion(p) \/ AesWhiten(p)
    \/ AesSubBytes(p) \/ AesShiftRows(p) \/ AesMixColumns(p) \/ AesAddRoundKey(p)
    \/ AesFinalSubBytes(p) \/ AesFinalShiftRows(p) \/ AesFinalAddRoundKey(p)
    \/ AesReturn(p)

(***************************************************************************)
(* OFBaes128e, one action per statement                                    *)
(***************************************************************************)
\* memcpy with the arguments exchanged: the zeroed feedback over the IV
EntryCopySwapped(s, p) == Memcpy(s, Iv(p), Feedback(p), 16)

\* memcpy(feedback, iv, 16)
EntryCopy(s, p) == Memcpy(s, Feedback(p), Iv(p), 16)

\* The feedback kept in the caller's IV buffer as well
FeedbackCopyInPlace(s, p) ==
    Memcpy(Memcpy(s, Feedback(p), BlockOut(p), 16), Iv(p), BlockOut(p), 16)

\* The feedback update left out
FeedbackCopyMissing(s, p) == s

\* memcpy(feedback, block_out, 16)
FeedbackCopy(s, p) == Memcpy(s, Feedback(p), BlockOut(p), 16)

\* A whole block in the final partial block
TailBoundWholeBlock(remaining) == Nb * 4

\* The bound of the loop over the final partial block: "j < remaining"
TailBound(remaining) == remaining

\* for (j = 0; j < n; ++j) ciphertext[base + j] = plaintext[base + j] ^ block_out[j]
XorLoop(s, p, base, n) ==
    [s EXCEPT ![Ciphertext(p)] =
        Arr([k \in 1..Len(s[Ciphertext(p)]) |->
            IF base < k /\ k <= base + n
            THEN Xor(s[Plaintext(p)][k], s[BlockOut(p)][k - base])
            ELSE s[Ciphertext(p)][k]])]

\* block_out and feedback are zeroed, feedback takes the IV, the length is split
OFBEntry(p) ==
    /\ pc[p] = "ofb_entry"
    /\ store' = EntryCopy([store EXCEPT ![BlockOut(p)] = Zeros(16),
                                        ![Feedback(p)] = Zeros(16)], p)
    /\ reg' = [reg EXCEPT ![p].full_blocks = reg[p].length \div 16,
                          ![p].remaining = reg[p].length % 16,
                          ![p].i = 0]
    /\ pc' = [pc EXCEPT ![p] = "ofb_loop"]
    /\ UNCHANGED << ret, hist, drv, main, fs >>

\* The test "i < full_blocks", and the call aes128e(block_out, feedback, key)
OFBLoop(p) ==
    /\ pc[p] = "ofb_loop"
    /\ IF reg[p].i < reg[p].full_blocks
       THEN /\ pc' = [pc EXCEPT ![p] = "aes_entry"]
            /\ ret' = [ret EXCEPT ![p] = "full"]
       ELSE /\ pc' = [pc EXCEPT ![p] = "ofb_tail"]
            /\ ret' = ret
    /\ UNCHANGED << store, reg, hist, drv, main, fs >>

\* The XOR of full block i
OFBXorBlock(p) ==
    /\ pc[p] = "ofb_xor"
    /\ store' = XorLoop(store, p, reg[p].i * 16, 16)
    /\ hist' = [hist EXCEPT ![p].written = @ \cup {reg[p].i * 16 + j : j \in 0..15}]
    /\ pc' = [pc EXCEPT ![p] = "ofb_feedback"]
    /\ UNCHANGED << ret, reg, drv, main, fs >>

\* The feedback update, and ++i
OFBFeedback(p) ==
    /\ pc[p] = "ofb_feedback"
    /\ store' = FeedbackCopy(store, p)
    /\ reg' = [reg EXCEPT ![p].i = @ + 1]
    /\ pc' = [pc EXCEPT ![p] = "ofb_loop"]
    /\ UNCHANGED << ret, hist, drv, main, fs >>

\* The test "remaining > 0", and the call aes128e(block_out, feedback, key)
OFBTail(p) ==
    /\ pc[p] = "ofb_tail"
    /\ IF reg[p].remaining > 0
       THEN /\ pc' = [pc EXCEPT ![p] = "aes_entry"]
            /\ ret' = [ret EXCEPT ![p] = "partial"]
       ELSE /\ pc' = [pc EXCEPT ![p] = "done"]
            /\ ret' = ret
    /\ UNCHANGED << store, reg, hist, drv, main, fs >>

\* The XOR of the final partial block
OFBXorTail(p) ==
    /\ pc[p] = "ofb_xor_tail"
    /\ store' = XorLoop(store, p, reg[p].full_blocks * 16, TailBound(reg[p].remaining))
    /\ hist' = [hist EXCEPT ![p].written =
                    @ \cup {reg[p].full_blocks * 16 + j : j \in 0..(TailBound(reg[p].remaining) - 1)}]
    /\ pc' = [pc EXCEPT ![p] = "done"]
    /\ UNCHANGED << ret, reg, drv, main, fs >>

OFB(p) ==
    \/ OFBEntry(p) \/ OFBLoop(p) \/ OFBXorBlock(p) \/ OFBFeedback(p)
    \/ OFBTail(p) \/ OFBXorTail(p)

(***************************************************************************)
(* Inputs and initial states                                               *)
(***************************************************************************)
\* Longest buffer length given to OFBaes128e: two full blocks and a byte
MaxLen == 33

\* Bytes the caller's buffers extend beyond the length passed
Guard == 16

\* FIPS-197 appendix C.1: key 00 01 .. 0f, block 00 11 .. ff
FipsKey == Arr([k \in 1..16 |-> k - 1])
FipsBlock == Arr([k \in 1..16 |-> 17 * (k - 1)])

\* SP 800-38A appendix F.4.1: key 2b7e1516 28aed2a6 abf71588 09cf4f3c, IV 00 01 .. 0f
NistKey == << 43, 126, 21, 22, 40, 174, 210, 166, 171, 247, 21, 136, 9, 207, 79, 60 >>
NistIv == Arr([k \in 1..16 |-> k - 1])

\* Key and IV (or, for a direct call of aes128e, key and input block)
KeyIvCases ==
    { [key |-> FipsKey, iv |-> FipsBlock], [key |-> NistKey, iv |-> NistIv] }

\* Plaintexts: n bytes seed, 2 * seed, 3 * seed, ...
Seeds == {0, 37}
Plain(seed, n) == Arr([k \in 1..n |-> (seed * k) % 256])

\* What an output buffer holds before the call
Fill(n) == Arr([k \in 1..n |-> 170])

\* Arrays before any call: automatic arrays hold nothing that is ever read
BaseStore ==
    [a \in Addresses |->
        CASE a[1] = "RoundKey" -> Zeros(4 * Nb * (Nr + 1))
          [] a[1] \in {"plaintext", "ciphertext"} -> << >>
          [] OTHER -> Zeros(16)]

WithBuffers(s, p, key, iv, plaintext, ciphertext) ==
    [s EXCEPT ![Key(p)] = key, ![Iv(p)] = iv,
              ![Plaintext(p)] = plaintext, ![Ciphertext(p)] = ciphertext]

Snapshot(s, p) ==
    [key |-> s[Key(p)], iv |-> s[Iv(p)],
     plaintext |-> s[Plaintext(p)], ciphertext |-> s[Ciphertext(p)]]

NewHist(s, p) == [log |-> << >>, calls |-> << >>, written |-> {}, entry |-> Snapshot(s, p)]

NoRegs == [length |-> 0, full_blocks |-> 0, remaining |-> 0, i |-> 0, i_ke |-> 0, round |-> 0]

MainOff == [pc |-> "off"]
FsOff == [exists |-> FALSE]

\* A direct call aes128e(ciphertext, plaintext, key) of one block
InitAES ==
    \E c \in KeyIvCases, seed \in Seeds :
        LET s == WithBuffers(BaseStore, 1, c.key,
                             Zeros(16), IF seed = 0 THEN c.iv ELSE Plain(seed, 16), Fill(16))
        IN  /\ store = s
            /\ pc = [p \in Calls |-> IF p = 1 THEN "aes_entry" ELSE "idle"]
            /\ ret = [p \in Calls |-> "top"]
            /\ reg = [p \in Calls |-> NoRegs]
            /\ hist = [p \in Calls |-> NewHist(s, p)]
            /\ drv = [kind |-> "aes", pass |-> 1, first |-> << >>]
            /\ main = MainOff
            /\ fs = FsOff

NextAES == Aes(1)

SpecAES == InitAES /\ [][NextAES]_vars

\* A call OFBaes128e(ciphertext, plaintext, L, iv, key), the buffers longer than L
InitOFB ==
    \E c \in KeyIvCases, seed \in Seeds, L \in 0..MaxLen :
        LET s == WithBuffers(BaseStore, 1, c.key, c.iv, Plain(seed, L + Guard), Fill(L + Guard))
        IN  /\ store = s
            /\ pc = [p \in Calls |-> IF p = 1 THEN "ofb_entry" ELSE "idle"]
            /\ ret = [p \in Calls |-> "none"]
            /\ reg = [p \in Calls |-> IF p = 1 THEN [NoRegs EXCEPT !.length = L] ELSE NoRegs]
            /\ hist = [p \in Calls |-> NewHist(s, p)]
            /\ drv = [kind |-> "ofb", pass |-> 1, first |-> Plain(seed, L)]
            /\ main = MainOff
            /\ fs = FsOff

\* The caller decrypts: the same call again on the ciphertext just produced,
\* with the same key, IV buffer and length
SecondCall(p) ==
    /\ drv.kind = "ofb"
    /\ drv.pass = 1
    /\ pc[p] = "done"
    /\ LET L == reg[p].length
           s == [store EXCEPT ![Plaintext(p)] = SubSeq(store[Ciphertext(p)], 1, L)
                                                   \o Plain(1, Guard),
                              ![Ciphertext(p)] = Fill(L + Guard)]
       IN  /\ store' = s
           /\ hist' = [hist EXCEPT ![p] = NewHist(s, p)]
    /\ drv' = [drv EXCEPT !.pass = 2]
    /\ pc' = [pc EXCEPT ![p] = "ofb_entry"]
    /\ UNCHANGED << ret, reg, main, fs >>

NextOFB == OFB(1) \/ Aes(1) \/ SecondCall(1)

SpecOFB == InitOFB /\ [][NextOFB]_vars

\* Lengths of two concurrent calls: one partial block, or one full block
\* followed by a partial block of ConcMaxLen - 16 bytes
ConcMaxLen == 17
ConcLens == {1, ConcMaxLen}

\* Two calls of OFBaes128e on buffers of their own.  Each first runs alone,
\* then both run again together, their steps interleaved in any order.
InitConc ==
    \E L1 \in ConcLens, L2 \in ConcLens :
        LET s == WithBuffers(
                   WithBuffers(BaseStore, 1, FipsKey, FipsBlock,
                               Plain(37, L1 + Guard), Fill(L1 + Guard)),
                   2, NistKey, NistIv, Plain(101, L2 + Guard), Fill(L2 + Guard))
        IN  /\ store = s
            /\ pc = [p \in Calls |-> IF p = 1 THEN "ofb_entry" ELSE "idle"]
            /\ ret = [p \in Calls |-> "none"]
            /\ reg = [p \in Calls |-> [NoRegs EXCEPT !.length = IF p = 1 THEN L1 ELSE L2]]
            /\ hist = [p \in Calls |-> NewHist(s, p)]
            /\ drv = [kind |-> "conc", phase |-> "alone1", alone |-> << << >>, << >> >>]
            /\ main = MainOff
            /\ fs = FsOff

\* The output buffer of call p as it was before the call
ResetOutput(s, p) == [s EXCEPT ![Ciphertext(p)] = hist[p].entry.ciphertext]

\* Call 1 has returned from its run alone: its output is kept, call 2 runs alone
AloneNext ==
    /\ drv.kind = "conc"
    /\ drv.phase = "alone1"
    /\ pc[1] = "done"
    /\ drv' = [drv EXCEPT !.phase = "alone2", !.alone[1] = store[Ciphertext(1)]]
    /\ store' = ResetOutput(store, 1)
    /\ hist' = [hist EXCEPT ![1] = NewHist(store', 1)]
    /\ pc' = [pc EXCEPT ![1] = "idle", ![2] = "ofb_entry"]
    /\ UNCHANGED << ret, reg, main, fs >>

\* Call 2 has returned from its run alone: both calls are started together
StartTogether ==
    /\ drv.kind = "conc"
    /\ drv.phase = "alone2"
    /\ pc[2] = "done"
    /\ drv' = [drv EXCEPT !.phase = "together", !.alone[2] = store[Ciphertext(2)]]
    /\ store' = ResetOutput(store, 2)
    /\ hist' = [hist EXCEPT ![2] = NewHist(store', 2)]
    /\ pc' = [p \in Calls |-> "ofb_entry"]
    /\ UNCHANGED << ret, reg, main, fs >>

NextConc ==
    \/ \E p \in Calls : OFB(p) \/ Aes(p)
    \/ AloneNext
    \/ StartTogether

SpecConc == InitConc /\ [][NextConc]_vars

(***************************************************************************)
(* main: the command-line program, one action per group of statements.     *)
(* The arguments, the files and the results of the library calls are the   *)
(* environment's choice.                                                   *)
(***************************************************************************)
\* A size_t or long value hi * 2^32 + lo
Size(hi, lo) == [hi |-> hi, lo |-> lo]

\* The conversion of a size_t to the uint32_t parameter: the low 32 bits
ToU32(sz) == sz.lo

\* Largest key or IV file, in bytes
MaxKeyFile == 32

\* Input file sizes: hi * 2^32 + lo, hi in 0..MaxHi and lo in 0..MainMaxLen
MaxHi == 1
MainMaxLen == 16
FileSizes == {Size(hi, lo) : hi \in 0..MaxHi, lo \in 0..MainMaxLen}

\* Bytes of a buffer or file that the model keeps: all of them below 2^32
\* bytes, otherwise the first lo + Guard
Tracked(sz) == IF sz.hi = 0 THEN sz.lo ELSE sz.lo + Guard

EOF == -1

Min(a, b) == IF a < b THEN a ELSE b

\* fread(buf, 1, want, f) on a file of size bytes: the count read, 0 on error
Fread(size, want, err) == IF err THEN 0 ELSE Min(size, want)

\* fgetc(f) at position pos of a file of size bytes
Fgetc(size, pos) == IF pos < size THEN 0 ELSE EOF

\* The test on key_size and iv_size: where main goes next
SizeCheck(key_size, iv_size) ==
    IF key_size # 16 THEN "exit"
    ELSE IF iv_size # 16 THEN "exit"
    ELSE "read_key"

\* The test for a 17th byte turned round
ReadBadNoExtra(bytes_read, extra) == bytes_read # 16 \/ extra = EOF

\* The test after reading the key (and the IV): "bytes_read != 16 || extra != EOF"
ReadBad(bytes_read, extra) == bytes_read # 16 \/ extra # EOF

AbsentFile == [exists |-> FALSE, size |-> Size(0, 0), data |-> << >>]
OldFile == [exists |-> TRUE, size |-> Size(0, 3), data |-> << 1, 2, 3 >>]
\* fopen(path, "wb"): the file is created, or truncated to length zero
TruncatedFile == [exists |-> TRUE, size |-> Size(0, 0), data |-> << >>]

Failed(m) == [m EXCEPT !.pc = "exit", !.exit = 1]

InitMain ==
    \E old \in {AbsentFile, OldFile} :
        /\ fs = old
        /\ main = [pc |-> "args", mode |-> "", opened |-> FALSE, sized |-> FALSE,
                   key_size |-> 0, iv_size |-> 0, iv |-> Zeros(16),
                   file_size |-> Size(0, 0), reads |-> {}, faults |-> {},
                   ofb_calls |-> 0,
                   exit |-> 0, out0 |-> old]
        /\ store = BaseStore
        /\ pc = [p \in Calls |-> "idle"]
        /\ ret = [p \in Calls |-> "none"]
        /\ reg = [p \in Calls |-> NoRegs]
        /\ hist = [p \in Calls |-> NewHist(BaseStore, p)]
        /\ drv = [kind |-> "main"]

\* The checks of argc and of the mode argv[1]
MainArgs ==
    /\ main.pc = "args"
    /\ \E argc \in {5, 6}, mode \in {"-e", "-d", "-x"} :
        main' = IF argc # 6 THEN Failed(main)
                ELSE IF mode # "-e" /\ mode # "-d" THEN Failed([main EXCEPT !.mode = mode])
                ELSE [main EXCEPT !.mode = mode, !.pc = "open"]
    /\ UNCHANGED << pc, ret, store, reg, hist, drv, fs >>

\* The four fopen calls, then the test of their results
MainOpen ==
    /\ main.pc = "open"
    /\ \E fin \in BOOLEAN, fout \in BOOLEAN, fkey \in BOOLEAN, fiv \in BOOLEAN :
        /\ fs' = IF fout THEN TruncatedFile ELSE fs
        /\ main' = IF fin /\ fout /\ fkey /\ fiv
                   THEN [main EXCEPT !.opened = TRUE, !.pc = "sizes"]
                   ELSE Failed([main EXCEPT !.faults = @ \cup {"fopen"}])
    /\ UNCHANGED << pc, ret, store, reg, hist, drv >>

\* fseek/ftell on the key and IV files, then the two size tests
MainSizes ==
    /\ main.pc = "sizes"
    /\ \E key_size \in 0..MaxKeyFile, iv_size \in 0..MaxKeyFile :
        LET m == [main EXCEPT !.key_size = key_size, !.iv_size = iv_size, !.sized = TRUE]
        IN  main' = IF SizeCheck(key_size, iv_size) = "exit"
                    THEN Failed(m)
                    ELSE [m EXCEPT !.pc = SizeCheck(key_size, iv_size)]
    /\ UNCHANGED << pc, ret, store, reg, hist, drv, fs >>

\* fread of the key, fgetc for a 17th byte, and the test
MainReadKey ==
    /\ main.pc = "read_key"
    /\ \E c \in KeyIvCases, err \in BOOLEAN :
        LET bytes_read_key == Fread(main.key_size, 16, err)
            extra_key_byte == IF err THEN EOF ELSE Fgetc(main.key_size, bytes_read_key)
            m == [main EXCEPT !.reads = IF bytes_read_key = 16 THEN @ \cup {"key"} ELSE @,
                              !.faults = IF err THEN @ \cup {"fread"} ELSE @]
        IN  /\ main' = IF ReadBad(bytes_read_key, extra_key_byte)
                       THEN Failed(m)
                       ELSE [m EXCEPT !.pc = "read_iv"]
            /\ store' = IF bytes_read_key = 16
                        THEN [store EXCEPT ![Key(1)] = c.key]
                        ELSE store
    /\ UNCHANGED << pc, ret, reg, hist, drv, fs >>

\* fread of the IV, fgetc for a 17th byte, and the test
MainReadIv ==
    /\ main.pc = "read_iv"
    /\ \E c \in KeyIvCases, err \in BOOLEAN :
        LET bytes_read_iv == Fread(main.iv_size, 16, err)
            extra_iv_byte == IF err THEN EOF ELSE Fgetc(main.iv_size, bytes_read_iv)
            m == [main EXCEPT !.reads = IF bytes_read_iv = 16 THEN @ \cup {"iv"} ELSE @,
                              !.iv = IF bytes_read_iv = 16 THEN c.iv ELSE @,
                              !.faults = IF err THEN @ \cup {"fread"} ELSE @]
        IN  main' = IF ReadBad(bytes_read_iv, extra_iv_byte)
                    THEN Failed(m)
                    ELSE [m EXCEPT !.pc = "alloc"]
    /\ UNCHANGED << pc, ret, store, reg, hist, drv, fs >>

\* ftell on the input file and the two malloc calls; what malloc returns
\* holds indeterminate bytes
MainAlloc ==
    /\ main.pc = "alloc"
    /\ \E sz \in FileSizes, input \in BOOLEAN, output \in BOOLEAN, junk \in {0, 255} :
        LET m == [main EXCEPT !.file_size = sz]
        IN  IF ~input \/ ~output
            THEN /\ main' = Failed([m EXCEPT !.faults = @ \cup {"malloc"}])
                 /\ store' = store
            ELSE /\ main' = [m EXCEPT !.pc = "read_input"]
                 /\ store' = [store EXCEPT
                        ![Plaintext(1)] = Arr([k \in 1..Tracked(sz) |-> junk]),
                        ![Ciphertext(1)] = Arr([k \in 1..Tracked(sz) |-> junk])]
    /\ UNCHANGED << pc, ret, reg, hist, drv, fs >>

\* fread of the whole input file, and the test
MainReadInput ==
    /\ main.pc = "read_input"
    /\ \E err \in BOOLEAN :
        IF err
        THEN /\ main' = Failed([main EXCEPT !.faults = @ \cup {"fread"}])
             /\ store' = store
        ELSE /\ main' = [main EXCEPT !.reads = @ \cup {"input"}, !.pc = "call"]
             /\ store' = [store EXCEPT ![Plaintext(1)] = Plain(37, Tracked(main.file_size))]
    /\ UNCHANGED << pc, ret, reg, hist, drv, fs >>

\* memcpy(iv_copy, iv, 16) and the call
\* OFBaes128e(output, input, file_size, iv_copy, key)
MainCall ==
    /\ main.pc = "call"
    /\ store' = [store EXCEPT ![Iv(1)] = main.iv]
    /\ reg' = [reg EXCEPT ![1].length = ToU32(main.file_size)]
    /\ hist' = [hist EXCEPT ![1] = NewHist(store', 1)]
    /\ pc' = [pc EXCEPT ![1] = "ofb_entry"]
    /\ main' = [main EXCEPT !.ofb_calls = @ + 1, !.pc = "in_ofb"]
    /\ UNCHANGED << ret, drv, fs >>

\* After the call returns: fwrite(output, 1, file_size, fout), fclose, return 0
MainWrite ==
    /\ main.pc = "in_ofb"
    /\ pc[1] = "done"
    /\ fs' = [exists |-> TRUE, size |-> main.file_size, data |-> store[Ciphertext(1)]]
    /\ main' = [main EXCEPT !.pc = "exit", !.exit = 0]
    /\ UNCHANGED << pc, ret, store, reg, hist, drv >>

NextMain ==
    \/ MainArgs \/ MainOpen \/ MainSizes \/ MainReadKey \/ MainReadIv
    \/ MainAlloc \/ MainReadInput \/ MainCall \/ MainWrite
    \/ OFB(1) \/ Aes(1)

SpecMain == InitMain /\ [][NextMain]_vars

(***************************************************************************)
(* Properties of aes128e (SpecAES)                                         *)
(***************************************************************************)
\* FIPS-197 appendix C.1: the ciphertext 69c4e0d8 6a7b0430 d8cdb780 70b4c55a
FipsCipher ==
    << 105, 196, 224, 216, 106, 123, 4, 48, 216, 205, 183, 128, 112, 180, 197, 90 >>

FipsCallDone ==
    /\ drv.kind = "aes"
    /\ pc[1] = "done"
    /\ hist[1].entry.key = FipsKey
    /\ hist[1].entry.plaintext = FipsBlock

\* C4: for the FIPS-197 key 000102..0f and input block 00112233..ff, the
\* block aes128e writes to its output is 69c4e0d86a7b0430d8cdb78070b4c55a.
C4_KnownAnswer == FipsCallDone => store[Ciphertext(1)] = FipsCipher

C4_Witness == FipsCallDone /\ store[Ciphertext(1)] # Fill(16)

\* The order of round steps the specification prescribes: 40 steps
RoundSchedule ==
    Arr([n \in 1..40 |->
        IF n = 1 THEN << "AddRoundKey", 0 >>
        ELSE IF n <= 37
             THEN << CASE (n - 2) % 4 = 0 -> "SubBytes"
                       [] (n - 2) % 4 = 1 -> "ShiftRows"
                       [] (n - 2) % 4 = 2 -> "MixColumns"
                       [] OTHER -> "AddRoundKey",
                     ((n - 2) \div 4) + 1 >>
             ELSE << CASE n = 38 -> "SubBytes"
                       [] n = 39 -> "ShiftRows"
                       [] OTHER -> "AddRoundKey",
                     10 >>])

IsPrefix(a, b) == Len(a) <= Len(b) /\ a = SubSeq(b, 1, Len(a))

StepsOf(log, step) == {n \in 1..Len(log) : log[n][1] = step}

\* C9: whatever the data, a call of aes128e performs AddRoundKey(0), then
\* SubBytes, ShiftRows, MixColumns, AddRoundKey(round) for round 1..9, then
\* SubBytes, ShiftRows, AddRoundKey(10): at every moment the steps done are a
\* prefix of that order, and on return MixColumns has run 9 times and the round
\* keys 0..10 were each added once, in increasing order.
C9_RoundOrder ==
    drv.kind = "aes" =>
        /\ IsPrefix(hist[1].log, RoundSchedule)
        /\ pc[1] \in {"aes_out", "done"} =>
            LET log == hist[1].log
                adds == StepsOf(log, "AddRoundKey")
            IN  /\ log = RoundSchedule
                /\ Cardinality(StepsOf(log, "MixColumns")) = 9
                /\ \A n \in StepsOf(log, "MixColumns") : log[n][2] # 10
                /\ {log[n][2] : n \in adds} = 0..10
                /\ Cardinality(adds) = 11
                /\ \A m, n \in adds : m < n => log[m][2] < log[n][2]

C9_Witness ==
    /\ drv.kind = "aes"
    /\ pc[1] = "done"
    /\ Len(hist[1].log) = 40
    /\ hist[1].entry.key = NistKey

(***************************************************************************)
(* Properties of OFBaes128e (SpecOFB)                                      *)
(***************************************************************************)
OfbReturned(p) == drv.kind = "ofb" /\ pc[p] = "done"

\* The first n bytes of the output buffer
Output(p, n) == SubSeq(store[Ciphertext(p)], 1, n)

\* C1: a call of OFBaes128e on P giving C, then a call on C with the same key
\* and IV buffer, returns P byte for byte.
C1_SelfInverse ==
    (OfbReturned(1) /\ drv.pass = 2) => Output(1, reg[1].length) = drv.first

C1_Witness ==
    /\ OfbReturned(1)
    /\ drv.pass = 2
    /\ reg[1].length = 33
    /\ Output(1, 33) = drv.first
    /\ hist[1].entry.plaintext # store[Ciphertext(1)]

\* C2: the j-th call of aes128e is made on the output of the (j-1)-th one (the
\* first on the IV) under the caller's key, never on plaintext or ciphertext,
\* and on return byte k of the ciphertext is plaintext[k] XOR byte k mod 16 of
\* the output of call k div 16.
C2_OutputFeedback ==
    drv.kind = "ofb" =>
        LET cs == hist[1].calls
            e == hist[1].entry
        IN  /\ \A j \in 1..Len(cs) :
                /\ cs[j].key = e.key
                /\ cs[j].input = IF j = 1 THEN e.iv ELSE cs[j - 1].output
            /\ pc[1] = "done" =>
                \A k \in 0..(reg[1].length - 1) :
                    At(store[Ciphertext(1)], k)
                        = Xor(At(e.plaintext, k), At(cs[(k \div 16) + 1].output, k % 16))

C2_Witness ==
    /\ OfbReturned(1)
    /\ reg[1].length = 33
    /\ Len(hist[1].calls) = 3
    /\ hist[1].calls[3].input = hist[1].calls[2].output
    /\ hist[1].calls[2].output # hist[1].calls[1].output

\* C3: OFBaes128e writes ciphertext[0 .. L-1] and nothing else: no index >= L
\* is ever written, the bytes from L on keep their value, and on return every
\* index below L was written and aes128e was called ceil(L / 16) times.
C3_ExactLength ==
    drv.kind = "ofb" =>
        LET L == reg[1].length
            ct == store[Ciphertext(1)]
        IN  /\ hist[1].written \subseteq 0..(L - 1)
            /\ \A k \in L..(Len(ct) - 1) : At(ct, k) = At(hist[1].entry.ciphertext, k)
            /\ pc[1] = "done" =>
                /\ hist[1].written = 0..(L - 1)
                /\ Len(hist[1].calls) = (L + 15) \div 16

C3_Witness ==
    /\ OfbReturned(1)
    /\ reg[1].length = 17
    /\ hist[1].written = 0..16
    /\ Len(hist[1].calls) = 2

\* C7: during and after a call of OFBaes128e the caller's IV, key and
\* plaintext buffers hold the bytes they held when the call was made.
C7_InputsUntouched ==
    drv.kind = "ofb" =>
        /\ store[Iv(1)] = hist[1].entry.iv
        /\ store[Key(1)] = hist[1].entry.key
        /\ store[Plaintext(1)] = hist[1].entry.plaintext

C7_Witness ==
    /\ OfbReturned(1)
    /\ reg[1].length >= 16
    /\ store[Feedback(1)] # store[Iv(1)]
    /\ store[Iv(1)] = hist[1].entry.iv

(***************************************************************************)
(* Reentrancy (SpecConc)                                                   *)
(***************************************************************************)
\* C8: when two calls of OFBaes128e (each calling aes128e) run together on
\* buffers of their own, in any interleaving of their steps, what each has
\* written on return is what it wrote when it ran alone on the same buffers.
C8_Reentrant ==
    (drv.kind = "conc" /\ drv.phase = "together") =>
        \A p \in Calls : pc[p] = "done" => store[Ciphertext(p)] = drv.alone[p]

C8_Witness ==
    /\ drv.kind = "conc"
    /\ drv.phase = "together"
    /\ pc[1] = "done"
    /\ pc[2] = "aes_mix"
    /\ reg[1].length = ConcMaxLen
    /\ store[Ciphertext(1)] = drv.alone[1]
    /\ drv.alone[1] # hist[1].entry.ciphertext

(***************************************************************************)
(* Properties of main (SpecMain)                                           *)
(***************************************************************************)
Exited == drv.kind = "main" /\ main.pc = "exit"

\* C5: once the key and IV file sizes are known and one of them is not 16,
\* OFBaes128e is never called and main returns non-zero; when both are 16 and
\* all four files were opened and no fread (nor the malloc of the buffer the
\* input is read into) failed, main reads all three files, calls OFBaes128e
\* once and returns 0.
C5_LengthValidation ==
    drv.kind = "main" =>
        /\ (main.sized /\ (main.key_size # 16 \/ main.iv_size # 16)) =>
            /\ main.ofb_calls = 0
            /\ pc[1] = "idle"
            /\ main.pc = "exit"
            /\ main.exit # 0
        /\ (main.pc = "exit" /\ main.sized /\ main.key_size = 16 /\ main.iv_size = 16
                /\ main.opened /\ main.faults = {}) =>
            /\ main.reads = {"key", "iv", "input"}
            /\ main.ofb_calls = 1
            /\ main.exit = 0

C5_Witness ==
    /\ Exited
    /\ main.sized
    /\ main.key_size = 16
    /\ main.iv_size = 17
    /\ main.exit = 1
    /\ main.ofb_calls = 0

\* C6: when main returns non-zero, the output file is what it was before the run.
C6_NoOutputOnFailure == (Exited /\ main.exit # 0) => fs = main.out0

\* C10: when main returns 0, the number of bytes OFBaes128e transformed is the
\* number of bytes main read and wrote, file_size.
C10_AllBytesTransformed ==
    (Exited /\ main.exit = 0) =>
        /\ fs.size = main.file_size
        /\ Size(0, Cardinality(hist[1].written)) = main.file_size

====
